---- MODULE Spec2Model ----
(***************************************************************************)
(* The collaboration-tagging scripts of pongogo-eval-tagging:              *)
(*   scripts/add_tags.py       add_tags_from_jsonl  (evaluation_results.db)*)
(*   scripts/import_tagged.py  import_tags          (routing_log db)       *)
(*   scripts/validate_tags.py  validate_tags        (batch file only)      *)
(* A behaviour follows one script against its own store; the variable      *)
(* script names it.  A batch is read line by line, the content of each     *)
(* line being chosen when the line is read.                                *)
(***************************************************************************)
EXTENDS Integers, Sequences, FiniteSets, TLC

\* ------------------------------------------------------------------ bounds
\* lines in one batch given to add_tags_from_jsonl
MaxLinesAdd == 2
\* rows of collaboration_tags a behaviour may reach (a run starts only if
\* its whole batch fits)
MaxRows == 3
\* lines in one batch given to import_tags
MaxLinesImport == 2
\* lines in one batch given to validate_tags
MaxLinesValidate == 3
\* rows of routing_events when its events are exported and imported back
MaxExportRows == 2

\* ------------------------------------------------------------- JSON values
JNull == [t |-> "null"]
JBool(b) == [t |-> "bool", b |-> b]
JInt(n) == [t |-> "int", n |-> n]
JStr(s) == [t |-> "str", s |-> s]
\* a JSON array; its content never matters to the scripts
JList == [t |-> "list"]
\* a JSON object: f maps its keys to values
JObj(f) == [t |-> "object", f |-> f]

\* One line of a batch file: text json.loads rejects, or the text of a value.
BadLine == [ok |-> FALSE]
Line(v) == [ok |-> TRUE, v |-> v]

\* json.loads(line): raises JSONDecodeError, or returns the value
JsonDecodeError(line) == ~line.ok
JsonLoads(line) == line.v

\* d.get(k, default) raises AttributeError unless d is a dict
HasGet(d) == d.t = "object"
Get(d, k, default) == IF k \in DOMAIN d.f THEN d.f[k] ELSE default

\* sqlite3 binds None, int, float, str; a list or dict raises InterfaceError
Bindable(v) == v.t \in {"null", "bool", "int", "str"}
\* a Python bool is bound as the integer 0 or 1
SqlBind(v) == IF v.t = "bool" THEN JInt(IF v.b THEN 1 ELSE 0) ELSE v

\* ----------------------------------------------------------------- helpers
Range(s) == {s[i] : i \in DOMAIN s}

Max(S) == CHOOSE x \in S : \A y \in S : y <= x

\* the dict d with key k set to v / with the keys K removed
WithField(d, k, v) == [x \in DOMAIN d \cup {k} |-> IF x = k THEN v ELSE d[x]]
Without(d, K) == [x \in DOMAIN d \ K |-> d[x]]
EmptyDict == [x \in {} |-> JNull]

\* ------------------------------------------------ the batches of add_tags
Taggers == {"llm:codex", "human:max"}
Procs == {"p1", "p2"}
\* event_id values of the rows of evaluation_dataset
EvalEvents == {"ev_a", "ev_b"}

GoodTags ==
    [is_new_request |-> JBool(TRUE), is_followup |-> JBool(FALSE),
     is_correction |-> JBool(FALSE), request_type |-> JStr("query"),
     expected_outcome |-> JStr("ok"), session_id |-> JStr("session_1"),
     request_sequence |-> JInt(1), notes |-> JStr("a")]

AddTagValues ==
    {JObj(GoodTags), JObj(WithField(GoodTags, "notes", JStr("b"))),
     JObj(WithField(GoodTags, "notes", JList)), JList}
AddLines ==
    {BadLine, Line(JInt(7)),
     Line(JObj([event_id |-> JStr("ev_a"),
                tags |-> JObj(Without(GoodTags, {"request_sequence"}))])),
     Line(JObj([tags |-> JObj(GoodTags)])),
     Line(JObj([event_id |-> JStr("ev_a")])),
     Line(JObj([event_id |-> JStr("ev_gone"), tags |-> JObj(GoodTags)])),
     Line(JObj([event_id |-> JList, tags |-> JObj(GoodTags)]))}
    \cup {Line(JObj([event_id |-> JStr(i), tags |-> g])) :
            i \in EvalEvents, g \in AddTagValues}

\* --------------------------------------------------------------- the state
VARIABLES
    script,              \* the script this behaviour runs
    has_collab_table,    \* evaluation_results.db has table collaboration_tags
    evaluation_dataset,  \* event_id of every row of evaluation_dataset
    collaboration_tags,  \* committed rows of collaboration_tags, in rowid order
    txn,                 \* per connection: rows inserted and not yet committed
    write_lock,          \* the connection holding the database's write lock
    at,                  \* per process: the frame of add_tags_from_jsonl
    routing_events,      \* committed rows of routing_events, by id
    it,                  \* the frame of import_tags
    vt,                  \* the frame of validate_tags
    ex                   \* the frame of export_events

vars == <<script, has_collab_table, evaluation_dataset, collaboration_tags,
          txn, write_lock, at, routing_events, it, vt, ex>>
evalVars == <<has_collab_table, evaluation_dataset, collaboration_tags,
              txn, write_lock, at>>

\* ------------------------------------------------------ add_tags_from_jsonl
\* the columns the INSERT fills from tags, and the tags key each one takes
TagColumns ==
    {"is_new_request", "tagged_session_id", "request_sequence", "is_followup",
     "is_correction", "iteration_type", "request_type", "expected_outcome",
     "expected_first_pass_success", "outcome_observed", "outcome_notes",
     "anti_pattern_detected", "anti_pattern_type", "preventive_instruction",
     "preventive_instruction_was_routed", "context_sufficient",
     "missing_context", "agent_response", "agent_response_source",
     "confidence", "notes", "requires_agent_response"}
FieldOf(c) == IF c = "tagged_session_id" THEN "session_id" ELSE c

NewStats == [total |-> 0, imported |-> 0, event_not_found |-> 0, errors |-> <<>>]
\* conn: "none" before sqlite3.connect, "open" after it, "closed" after
\* conn.close(), "abandoned" when the function is left with conn never closed
IdleFrame ==
    [pc |-> "idle", tagger_id |-> "", nlines |-> 0, line_num |-> 0,
     line |-> BadLine, next_version |-> 0, in_txn |-> FALSE, shared |-> FALSE,
     stats |-> NewStats, conn |-> "none"]

\* the locals event_id and tags of the loop body, from the line's object
EventIdOf(data) == Get(data, "event_id", JStr(""))
TagsOf(data) == Get(data, "tags", JObj(EmptyDict))

\* SELECT event_id FROM evaluation_dataset WHERE event_id = ?
EventExistsAny(ds, event_id) == event_id.t = "str"
EventExists(ds, event_id) == event_id.t = "str" /\ event_id.s \in ds

\* what connection p reads: the committed rows and its own uncommitted ones
Visible(p) == collaboration_tags \o txn[p]

\* SELECT COALESCE(MAX(tag_version), 0) + 1 ... WHERE event_id = ? AND tagger_id = ?
NextVersionAnyTagger(rows, e, g) ==
    LET vs == {r.tag_version : r \in {x \in Range(rows) : x.event_id = e}}
    IN  (IF vs = {} THEN 0 ELSE Max(vs)) + 1
NextVersion(rows, e, g) ==
    LET vs == {r.tag_version :
                 r \in {x \in Range(rows) : x.event_id = e /\ x.tagger_id = g}}
    IN  (IF vs = {} THEN 0 ELSE Max(vs)) + 1

\* the row the INSERT writes
TagRow(event_id, tags, tagger_id, version) ==
    [event_id |-> event_id.s, tagger_id |-> tagger_id, tag_version |-> version,
     cols |-> [c \in TagColumns |-> SqlBind(Get(tags, FieldOf(c), JNull))]]

\* the table is unique on (event_id, tagger_id, tag_version)
UniqueViolation(rows, r) ==
    \E x \in Range(rows) :
        /\ x.event_id = r.event_id
        /\ x.tagger_id = r.tagger_id
        /\ x.tag_version = r.tag_version

\* the INSERT raises: tags.get fails, a value cannot be bound, the database
\* is locked by another connection's open transaction, or the row's key exists
InsertRaises(p, tags, row) ==
    \/ ~HasGet(tags)
    \/ \E c \in TagColumns : ~Bindable(Get(tags, FieldOf(c), JNull))
    \/ write_lock \notin {"none", p}
    \/ UniqueViolation(Visible(p), row)

Running(p) == at[p].pc \in {"loop", "insert"}
RowsInFlight == Len(collaboration_tags) + Len(txn["p1"]) + Len(txn["p2"])

\* a start that goes on to the loop without the probe for the table
AT_StartNoProbe(p, tagger_id, n) ==
    /\ script = "add_tags"
    /\ ~Running(p)
    /\ RowsInFlight + n <= MaxRows
    /\ at' = [at EXCEPT ![p] = [IdleFrame EXCEPT !.pc = "loop", !.tagger_id = tagger_id,
                                                  !.nlines = n, !.conn = "open"]]
    /\ UNCHANGED <<script, ex, routing_events, it, vt, has_collab_table, evaluation_dataset,
                   collaboration_tags, txn, write_lock>>
\* stats, connect, the probe for collaboration_tags (lines 37-54)
AT_Start(p, tagger_id, n) ==
    /\ script = "add_tags"
    /\ ~Running(p)
    /\ RowsInFlight + n <= MaxRows
    /\ at' = [at EXCEPT ![p] =
                IF has_collab_table
                THEN [IdleFrame EXCEPT !.pc = "loop", !.tagger_id = tagger_id,
                                       !.nlines = n, !.conn = "open"]
                ELSE [IdleFrame EXCEPT !.pc = "returned", !.conn = "closed",
                                       !.stats.errors = <<[line |-> 0, kind |-> "no_table"]>>]]
    /\ UNCHANGED <<script, ex, routing_events, it, vt, has_collab_table, evaluation_dataset,
                   collaboration_tags, txn, write_lock>>

\* an exception leaves the function: the connection is dropped with its
\* transaction open, which rolls the transaction back
AT_Raise(p) ==
    /\ at' = [at EXCEPT ![p] = [IdleFrame EXCEPT !.pc = "raised", !.conn = "abandoned"]]
    /\ txn' = [txn EXCEPT ![p] = <<>>]
    /\ write_lock' = IF write_lock = p THEN "none" ELSE write_lock
    /\ UNCHANGED collaboration_tags

\* one iteration of the loop up to the SELECT of next_version (lines 57-83)
AT_ReadLine(p, line) ==
    /\ script = "add_tags"
    /\ at[p].pc = "loop"
    /\ at[p].line_num < at[p].nlines
    /\ LET n == at[p].line_num + 1
           st == [at[p].stats EXCEPT !.total = @ + 1]
       IN  IF JsonDecodeError(line)
           THEN /\ at' = [at EXCEPT ![p].line_num = n, ![p].line = line,
                             ![p].stats = [st EXCEPT !.errors =
                                 Append(@, [line |-> n, kind |-> "json_parse"])]]
                /\ UNCHANGED <<collaboration_tags, txn, write_lock>>
           ELSE IF ~HasGet(JsonLoads(line)) \/ ~Bindable(EventIdOf(JsonLoads(line)))
           THEN AT_Raise(p)
           ELSE IF ~EventExists(evaluation_dataset, EventIdOf(JsonLoads(line)))
           THEN /\ at' = [at EXCEPT ![p].line_num = n, ![p].line = line,
                             ![p].shared = at[p].in_txn,
                             ![p].stats = [st EXCEPT !.event_not_found = @ + 1]]
                /\ UNCHANGED <<collaboration_tags, txn, write_lock>>
           ELSE /\ at' = [at EXCEPT ![p].line_num = n, ![p].line = line,
                             ![p].shared = at[p].in_txn,
                             ![p].stats = st, ![p].pc = "insert",
                             ![p].next_version =
                                 NextVersion(Visible(p),
                                             EventIdOf(JsonLoads(line)).s,
                                             at[p].tagger_id)]
                /\ UNCHANGED <<collaboration_tags, txn, write_lock>>
    /\ UNCHANGED <<script, ex, routing_events, it, vt, has_collab_table, evaluation_dataset>>

\* an INSERT that counts the line as imported even when it raised
AT_InsertCountsFailed(p) ==
    /\ script = "add_tags"
    /\ at[p].pc = "insert"
    /\ LET data == JsonLoads(at[p].line)
           tags == TagsOf(data)
           row == TagRow(EventIdOf(data), IF HasGet(tags) THEN tags ELSE JObj(EmptyDict),
                         at[p].tagger_id, at[p].next_version)
       IN  IF InsertRaises(p, tags, row)
           THEN /\ at' = [at EXCEPT ![p].pc = "loop",
                             ![p].in_txn = at[p].in_txn \/ HasGet(tags),
                             ![p].stats.imported = @ + 1,
                             ![p].stats.errors =
                                 Append(@, [line |-> at[p].line_num, kind |-> "insert"])]
                /\ UNCHANGED <<txn, write_lock>>
           ELSE /\ at' = [at EXCEPT ![p].pc = "loop", ![p].in_txn = TRUE,
                             ![p].stats.imported = @ + 1]
                /\ txn' = [txn EXCEPT ![p] = Append(@, row)]
                /\ write_lock' = p
    /\ UNCHANGED <<script, ex, routing_events, it, vt, has_collab_table, evaluation_dataset, collaboration_tags>>

\* the INSERT of the iteration and its except clause (lines 85-144)
AT_Insert(p) ==
    /\ script = "add_tags"
    /\ at[p].pc = "insert"
    /\ LET data == JsonLoads(at[p].line)
           tags == TagsOf(data)
           row == TagRow(EventIdOf(data), IF HasGet(tags) THEN tags ELSE JObj(EmptyDict),
                         at[p].tagger_id, at[p].next_version)
       IN  IF InsertRaises(p, tags, row)
           THEN /\ at' = [at EXCEPT ![p].pc = "loop",
                             ![p].in_txn = at[p].in_txn \/ HasGet(tags),
                             ![p].stats.errors =
                                 Append(@, [line |-> at[p].line_num, kind |-> "insert"])]
                /\ UNCHANGED <<txn, write_lock>>
           ELSE /\ at' = [at EXCEPT ![p].pc = "loop", ![p].in_txn = TRUE,
                             ![p].stats.imported = @ + 1]
                /\ txn' = [txn EXCEPT ![p] = Append(@, row)]
                /\ write_lock' = p
    /\ UNCHANGED <<script, ex, routing_events, it, vt, has_collab_table, evaluation_dataset, collaboration_tags>>

\* a connection that has read inside its open transaction holds a shared
\* lock, and the commit of another connection's writes waits for it
HoldsShared(q) == at[q].pc \in {"loop", "insert"} /\ at[q].in_txn /\ at[q].shared
CommitBlocked(p) == txn[p] # <<>> /\ \E q \in Procs \ {p} : HoldsShared(q)

\* conn.commit(), conn.close(), return stats (lines 146-149)
AT_Commit(p) ==
    /\ script = "add_tags"
    /\ at[p].pc = "loop"
    /\ at[p].line_num = at[p].nlines
    /\ ~CommitBlocked(p)
    /\ at' = [at EXCEPT ![p] = [IdleFrame EXCEPT !.pc = "returned", !.conn = "closed",
                                                  !.stats = at[p].stats]]
    /\ collaboration_tags' = collaboration_tags \o txn[p]
    /\ txn' = [txn EXCEPT ![p] = <<>>]
    /\ write_lock' = IF write_lock = p THEN "none" ELSE write_lock
    /\ UNCHANGED <<script, ex, routing_events, it, vt, has_collab_table, evaluation_dataset>>

\* conn.commit() gives up waiting and raises OperationalError (line 146)
AT_CommitBusy(p) ==
    /\ script = "add_tags"
    /\ at[p].pc = "loop"
    /\ at[p].line_num = at[p].nlines
    /\ CommitBlocked(p)
    /\ AT_Raise(p)
    /\ UNCHANGED <<script, ex, routing_events, it, vt, has_collab_table, evaluation_dataset>>

AT_Step(p, lines) ==
    \/ \E line \in lines : AT_ReadLine(p, line)
    \/ AT_Insert(p)
    \/ AT_Commit(p)


\* ---------------------------------------------------------------- strings
\* An event_id read by import_tags is a sequence of characters.
Digits == <<"0", "1", "2", "3", "4", "5", "6", "7", "8", "9">>
IsDigit(c) == \E i \in DOMAIN Digits : Digits[i] = c
DigitValue(c) == (CHOOSE i \in DOMAIN Digits : Digits[i] = c) - 1
EvtPrefix == <<"e", "v", "t", "_">>

\* s.replace('evt_', ''): every occurrence removed, scanning left to right
RECURSIVE ReplaceEvt(_)
ReplaceEvt(s) ==
    IF Len(s) < Len(EvtPrefix) THEN s
    ELSE IF SubSeq(s, 1, Len(EvtPrefix)) = EvtPrefix
         THEN ReplaceEvt(SubSeq(s, Len(EvtPrefix) + 1, Len(s)))
         ELSE <<s[1]>> \o ReplaceEvt(Tail(s))

\* int(s) accepts an optional sign, then digits, single underscores allowed
\* between digits; anything else raises ValueError
Unsigned(s) == IF s # <<>> /\ s[1] \in {"+", "-"} THEN Tail(s) ELSE s
IntParses(s) ==
    LET u == Unsigned(s)
    IN  /\ u # <<>>
        /\ IsDigit(u[1]) /\ IsDigit(u[Len(u)])
        /\ \A i \in DOMAIN u : IsDigit(u[i]) \/ u[i] = "_"
        /\ \A i \in 1..(Len(u) - 1) : ~(u[i] = "_" /\ u[i + 1] = "_")
RECURSIVE DigitsValue(_, _)
DigitsValue(u, acc) ==
    IF u = <<>> THEN acc
    ELSE IF u[1] = "_" THEN DigitsValue(Tail(u), acc)
         ELSE DigitsValue(Tail(u), 10 * acc + DigitValue(u[1]))
IntValue(s) ==
    IF s # <<>> /\ s[1] = "-" THEN 0 - DigitsValue(Unsigned(s), 0)
    ELSE DigitsValue(Unsigned(s), 0)

\* ------------------------------------------------------------- import_tags
\* ids of the rows of routing_events
RoutingIds == {1, 42}
Sources == {"codex"}
\* datetime.now().isoformat() of a run
Times == {"t1", "t2"}

\* the columns ensure_tag_columns adds (lines 36-48)
ImportTagColumns ==
    {"tag_is_new_request", "tag_is_followup", "tag_is_correction",
     "tag_request_type", "tag_expected_outcome", "tag_session_id",
     "tag_request_sequence", "tag_confidence", "tag_notes", "tag_source",
     "tag_timestamp"}

\* a row of routing_events before any import
BaseRow(id) == [c \in {"id", "user_message"} |->
                  IF c = "id" THEN JInt(id) ELSE JStr("msg")]

\* ALTER TABLE routing_events ADD COLUMN, for each column not yet there
EnsureTagColumns(tbl) ==
    [id \in DOMAIN tbl |->
        [c \in DOMAIN tbl[id] \cup ImportTagColumns |->
            IF c \in DOMAIN tbl[id] THEN tbl[id][c] ELSE JNull]]

\* the truth value Python gives a value in "1 if v else 0"
Truthy(v) ==
    CASE v.t = "null" -> FALSE
      [] v.t = "bool" -> v.b
      [] v.t = "int" -> v.n # 0
      [] v.t = "str" -> v.s # ""
      [] OTHER -> TRUE

\* the value the UPDATE gives each tag column (lines 143-156)
BoolColumns == {"tag_is_new_request", "tag_is_followup", "tag_is_correction"}
PlainColumns == {"tag_request_type", "tag_expected_outcome", "tag_session_id",
                 "tag_request_sequence", "tag_confidence", "tag_notes"}
\* "tag_" is dropped to name the key of tags
TagKey(c) ==
    CASE c = "tag_is_new_request" -> "is_new_request"
      [] c = "tag_is_followup" -> "is_followup"
      [] c = "tag_is_correction" -> "is_correction"
      [] c = "tag_request_type" -> "request_type"
      [] c = "tag_expected_outcome" -> "expected_outcome"
      [] c = "tag_session_id" -> "session_id"
      [] c = "tag_request_sequence" -> "request_sequence"
      [] c = "tag_confidence" -> "confidence"
      [] c = "tag_notes" -> "notes"
      [] OTHER -> c
UpdateValue(c, tags, source, timestamp) ==
    CASE c \in BoolColumns -> JInt(IF Truthy(Get(tags, TagKey(c), JNull)) THEN 1 ELSE 0)
      [] c \in PlainColumns -> SqlBind(Get(tags, TagKey(c), JNull))
      [] c = "tag_source" -> JStr(source)
      [] c = "tag_timestamp" -> JStr(timestamp)
UpdateRow(row, tags, source, timestamp) ==
    [c \in DOMAIN row |->
        IF c \in ImportTagColumns THEN UpdateValue(c, tags, source, timestamp)
        ELSE row[c]]
\* building or binding the parameters raises (AttributeError, InterfaceError)
UpdateRaises(tags) ==
    \/ ~HasGet(tags)
    \/ \E c \in PlainColumns : ~Bindable(Get(tags, TagKey(c), JNull))

NewImportStats == [total |-> 0, matched |-> 0, not_found |-> 0, errors |-> <<>>]
IdleImport ==
    [pc |-> "idle", dry_run |-> FALSE, source |-> "", timestamp |-> "",
     nlines |-> 0, line_num |-> 0, tagged_events |-> <<>>, idx |-> 0,
     stats |-> NewImportStats, view |-> EmptyDict, conn |-> "none"]

\* 'event_id' not in event: a dict is asked for the key, a list for the
\* element; an int, a bool or None raises TypeError
HasIn(v) == v.t \in {"object", "list"}
KeyIn(k, v) == v.t = "object" /\ k \in DOMAIN v.f

\* the errors of the dry run's format check (lines 98-102), in order
RECURSIVE DryRunErrors(_)
DryRunErrors(events) ==
    IF events = <<>> THEN <<>>
    ELSE (IF KeyIn("event_id", events[1]) THEN <<>>
          ELSE <<[line |-> 0, kind |-> "missing_event_id"]>>)
         \o (IF KeyIn("tags", events[1]) THEN <<>>
             ELSE <<[line |-> 0, kind |-> "missing_tags"]>>)
         \o DryRunErrors(Tail(events))

\* stats (lines 77-82)
IT_Start(dry_run, source, now, n) ==
    /\ script = "import_tags"
    /\ it.pc \in {"idle", "returned", "raised"}
    /\ it' = [IdleImport EXCEPT !.pc = "load", !.dry_run = dry_run,
                                !.source = source, !.timestamp = now, !.nlines = n]
    /\ UNCHANGED <<script, ex, evalVars, routing_events, vt>>

\* one line of the loading loop (lines 87-91)
IT_LoadLine(line) ==
    /\ script = "import_tags"
    /\ it.pc = "load"
    /\ it.line_num < it.nlines
    /\ it' = IF JsonDecodeError(line)
             THEN [it EXCEPT !.line_num = @ + 1,
                             !.stats.errors =
                                 Append(@, [line |-> it.line_num + 1, kind |-> "json_parse"])]
             ELSE [it EXCEPT !.line_num = @ + 1,
                             !.tagged_events = Append(@, JsonLoads(line))]
    /\ UNCHANGED <<script, ex, evalVars, routing_events, vt>>

\* a load that connects and adds the columns whatever dry_run says
IT_LoadedNoDryRun ==
    /\ script = "import_tags"
    /\ it.pc = "load"
    /\ it.line_num = it.nlines
    /\ routing_events' = EnsureTagColumns(routing_events)
    /\ it' = [it EXCEPT !.pc = "events", !.conn = "open",
                        !.stats = [it.stats EXCEPT !.total = Len(it.tagged_events)],
                        !.view = EnsureTagColumns(routing_events)]
    /\ UNCHANGED <<script, ex, evalVars, vt>>

\* after the loading loop: the dry run's check and return, or connect and
\* ensure_tag_columns, whose ALTER TABLE is committed at once (lines 93-109)
IT_Loaded ==
    /\ script = "import_tags"
    /\ it.pc = "load"
    /\ it.line_num = it.nlines
    /\ LET st == [it.stats EXCEPT !.total = Len(it.tagged_events)]
       IN  IF it.dry_run
           THEN /\ it' = IF \E i \in DOMAIN it.tagged_events : ~HasIn(it.tagged_events[i])
                         THEN [IdleImport EXCEPT !.pc = "raised"]
                         ELSE [IdleImport EXCEPT !.pc = "returned",
                                 !.stats = [st EXCEPT !.errors =
                                     @ \o DryRunErrors(it.tagged_events)]]
                /\ UNCHANGED routing_events
           ELSE /\ routing_events' = EnsureTagColumns(routing_events)
                /\ it' = [it EXCEPT !.pc = "events", !.stats = st, !.conn = "open",
                                    !.view = EnsureTagColumns(routing_events)]
    /\ UNCHANGED <<script, ex, evalVars, vt>>

\* one iteration of the loop over tagged_events (lines 111-158); an exception
\* leaves the function with the transaction open, which rolls it back
IT_Event ==
    /\ script = "import_tags"
    /\ it.pc = "events"
    /\ it.idx < Len(it.tagged_events)
    /\ LET event == it.tagged_events[it.idx + 1]
           event_id == Get(event, "event_id", JStr(<<>>))
           tags == Get(event, "tags", JObj(EmptyDict))
           raised == [IdleImport EXCEPT !.pc = "raised", !.conn = "abandoned"]
       IN  IF ~HasGet(event) \/ event_id.t # "str"
           THEN it' = raised
           ELSE IF ~IntParses(ReplaceEvt(event_id.s))
           THEN it' = [it EXCEPT !.idx = @ + 1,
                          !.stats.errors =
                              Append(@, [line |-> 0, kind |-> "invalid_event_id"])]
           ELSE LET db_id == IntValue(ReplaceEvt(event_id.s))
                IN  IF db_id \notin DOMAIN it.view
                    THEN it' = [it EXCEPT !.idx = @ + 1, !.stats.not_found = @ + 1]
                    ELSE IF UpdateRaises(tags)
                    THEN it' = raised
                    ELSE it' = [it EXCEPT !.idx = @ + 1, !.stats.matched = @ + 1,
                                   !.view[db_id] =
                                       UpdateRow(@, tags, it.source, it.timestamp)]
    /\ UNCHANGED <<script, ex, evalVars, routing_events, vt>>

\* conn.commit(), conn.close(), return stats (lines 160-163)
IT_Commit ==
    /\ script = "import_tags"
    /\ it.pc = "events"
    /\ it.idx = Len(it.tagged_events)
    /\ routing_events' = it.view
    /\ it' = [IdleImport EXCEPT !.pc = "returned", !.stats = it.stats, !.conn = "closed"]
    /\ UNCHANGED <<script, ex, evalVars, vt>>

\* the batches of import_tags
\* f"{id:06d}" of export_events: decimal digits, zero-padded to the width
PadWidth == 6
RECURSIVE DecimalDigits(_)
DecimalDigits(n) ==
    IF n < 10 THEN <<Digits[n + 1]>>
    ELSE DecimalDigits(n \div 10) \o <<Digits[(n % 10) + 1]>>
\* a fixed-width field: the last w digits only
RECURSIVE ZeroPadCut(_, _)
ZeroPadCut(s, w) ==
    IF Len(s) > w THEN SubSeq(s, Len(s) - w + 1, Len(s))
    ELSE IF Len(s) = w THEN s ELSE ZeroPadCut(<<"0">> \o s, w)
RECURSIVE ZeroPad(_, _)
ZeroPad(s, w) == IF Len(s) >= w THEN s ELSE ZeroPad(<<"0">> \o s, w)
EvtId(n) == EvtPrefix \o ZeroPad(DecimalDigits(n), PadWidth)

\* ----------------------------------------------------------- export_events
\* the locals of export_events: rows fetched, lines written, count
IdleExport == [pc |-> "idle", rows |-> <<>>, output |-> <<>>, count |-> 0]

\* WHERE id >= min_id AND id <= max_id, each only if given (lines 60-68);
\* no row of the stores modelled has an exclude_reason
Selected(tbl, min_id, max_id) ==
    {id \in DOMAIN tbl : /\ (min_id.t = "null" \/ id >= min_id.n)
                         /\ (max_id.t = "null" \/ id <= max_id.n)}
\* ORDER BY id
RECURSIVE OrderById(_, _)
OrderById(tbl, ids) ==
    IF ids = {} THEN <<>>
    ELSE LET m == CHOOSE x \in ids : \A y \in ids : x <= y
         IN  <<tbl[m]>> \o OrderById(tbl, ids \ {m})
\* LIMIT, if limit is given and not 0 (line 69)
Limited(rows, limit) ==
    IF Truthy(limit) /\ limit.n < Len(rows) THEN SubSeq(rows, 1, limit.n) ELSE rows
\* the event written for a row (lines 102-107), with the fields a row has here
ExportEvent(row) ==
    JObj([event_id |-> JStr(EvtId(row["id"].n)), user_message |-> row["user_message"]])

\* export_events (lines 49-113)
EX_Export(min_id, max_id, limit) ==
    /\ it.pc \in {"idle", "returned"}
    /\ LET rows == Limited(OrderById(routing_events,
                                     Selected(routing_events, min_id, max_id)), limit)
       IN  ex' = [pc |-> "returned", rows |-> rows,
                  output |-> [i \in DOMAIN rows |-> ExportEvent(rows[i])],
                  count |-> Len(rows)]
    /\ UNCHANGED <<script, evalVars, routing_events, it, vt>>

\* a line of the batch made from an exported event: its event_id and tags
TaggedLine(event) ==
    Line(JObj([event_id |-> event.f["event_id"], tags |-> JObj(GoodTags)]))
\* import_tags reads the next line of the batch made from the export
IT_LoadExported ==
    /\ it.pc = "load"
    /\ it.line_num < it.nlines
    /\ it.nlines = Len(ex.output)
    /\ IT_LoadLine(TaggedLine(ex.output[it.line_num + 1]))

ImportLines ==
    {BadLine, Line(JInt(7)),
     Line(JObj([tags |-> JObj(GoodTags)])),
     Line(JObj([event_id |-> JStr(EvtId(42))])),
     Line(JObj([event_id |-> JInt(42), tags |-> JObj(GoodTags)])),
     Line(JObj([event_id |-> JStr(EvtId(1)), tags |-> JObj(GoodTags)])),
     Line(JObj([event_id |-> JStr(EvtId(7)), tags |-> JObj(GoodTags)])),
     Line(JObj([event_id |-> JStr(EvtPrefix \o <<"0", "0", "0", "0", "4", "X">>),
                tags |-> JObj(GoodTags)])),
     Line(JObj([event_id |-> JStr(<<"4", "2">>), tags |-> JObj(GoodTags)])),
     Line(JObj([event_id |-> JStr(<<"4">> \o EvtPrefix \o <<"2">>),
                tags |-> JObj(GoodTags)]))}
    \cup {Line(JObj([event_id |-> JStr(EvtId(42)), tags |-> g])) : g \in AddTagValues}

\* ----------------------------------------------------------- validate_tags
REQUIRED_FIELDS ==
    <<"is_new_request", "is_followup", "is_correction", "request_type",
      "expected_outcome", "session_id", "request_sequence">>
VALID_REQUEST_TYPES == {"procedural", "query", "action", "meta", "unclear"}
VALID_CONFIDENCE == {"high", "medium", "low"}
BoolFields == <<"is_new_request", "is_followup", "is_correction">>

NewResults ==
    [total |-> 0, valid |-> 0, errors |-> <<>>, warnings |-> <<>>, sessions |-> <<>>]
\* file: the lines of the input file read so far; again: whether this run
\* reads a file that an earlier run has read, with that run's results
IdleValidate ==
    [pc |-> "idle", nlines |-> 0, line_num |-> 0, line |-> BadLine,
     results |-> NewResults, seen_event_ids |-> {},
     file |-> <<>>, again |-> [on |-> FALSE]]

\* a set member or dict key must be hashable
Hashable(v) == v.t \notin {"list", "object"}

\* isinstance(v, bool); isinstance(v, int), which a Python bool satisfies too
IsInstanceBool(v) == v.t = "bool"
IsInstanceInt(v) == v.t \in {"int", "bool"}
\* the number a bool or int is in a comparison
NumValue(v) == IF v.t = "bool" THEN (IF v.b THEN 1 ELSE 0) ELSE v.n
\* the member of a set a value is: True and 1, False and 0 are equal and
\* hash alike, so they are one member
PyKey(v) == IF v.t = "bool" THEN JInt(NumValue(v)) ELSE v

ErrorAt(n, kind, field) == [line |-> n, kind |-> kind, field |-> field]

\* the errors of the required-field loop (lines 83-88), in REQUIRED_FIELDS order
RECURSIVE MissingErrorsFirstOnly(_, _, _)
MissingErrorsFirstOnly(n, tags, fields) ==
    IF fields = <<>> THEN <<>>
    ELSE IF KeyIn(fields[1], tags) THEN MissingErrorsFirstOnly(n, tags, Tail(fields))
         ELSE <<ErrorAt(n, "missing_field", fields[1])>>
RECURSIVE MissingErrors(_, _, _)
MissingErrors(n, tags, fields) ==
    IF fields = <<>> THEN <<>>
    ELSE (IF KeyIn(fields[1], tags) THEN <<>>
          ELSE <<ErrorAt(n, "missing_field", fields[1])>>)
         \o MissingErrors(n, tags, Tail(fields))

\* the errors of the boolean loop (lines 94-99)
RECURSIVE BoolErrors(_, _, _)
BoolErrors(n, tags, fields) ==
    IF fields = <<>> THEN <<>>
    ELSE (IF IsInstanceBool(tags.f[fields[1]]) THEN <<>>
          ELSE <<ErrorAt(n, "not_boolean", fields[1])>>)
         \o BoolErrors(n, tags, Tail(fields))

\* tags['request_type'] not in VALID_REQUEST_TYPES (line 101)
RequestTypeErrors(n, tags) ==
    IF tags.f["request_type"].t = "str" /\ tags.f["request_type"].s \in VALID_REQUEST_TYPES
    THEN <<>> ELSE <<ErrorAt(n, "invalid_request_type", "request_type")>>

\* not isinstance(.., int) or .. < 1 (line 108)
SequenceErrors(n, tags) ==
    IF IsInstanceInt(tags.f["request_sequence"])
       /\ NumValue(tags.f["request_sequence"]) >= 1
    THEN <<>> ELSE <<ErrorAt(n, "request_sequence", "request_sequence")>>

\* session_id.startswith('session_'), on the texts the batches use
StartsWithSession(s) == s \in {"session_1", "session_7"}

\* the warnings of one line (lines 115-126)
LineWarnings(n, tags) ==
    (IF StartsWithSession(tags.f["session_id"].s) THEN <<>>
     ELSE <<[kind |-> "session_format", line |-> n]>>)
    \o (IF KeyIn("confidence", tags)
           /\ ~(tags.f["confidence"].t = "str" /\ tags.f["confidence"].s \in VALID_CONFIDENCE)
        THEN <<[kind |-> "confidence", line |-> n]>> ELSE <<>>)

\* results['sessions'][sid].append(entry): a dict in insertion order
SessionIndex(sessions, sid) ==
    IF \E i \in DOMAIN sessions : sessions[i].session_id = sid
    THEN CHOOSE i \in DOMAIN sessions : sessions[i].session_id = sid
    ELSE 0
SessionAppend(sessions, sid, entry) ==
    IF SessionIndex(sessions, sid) = 0
    THEN Append(sessions, [session_id |-> sid, events |-> <<entry>>])
    ELSE [sessions EXCEPT ![SessionIndex(sessions, sid)].events = Append(@, entry)]

\* sorted(events, key=lambda x: x[0]): stable, ascending
RECURSIVE InsertSorted(_, _)
InsertSorted(sorted, e) ==
    IF sorted = <<>> THEN <<e>>
    ELSE IF NumValue(e.seq) < NumValue(sorted[1].seq) THEN <<e>> \o sorted
         ELSE <<sorted[1]>> \o InsertSorted(Tail(sorted), e)
RECURSIVE Sorted(_)
Sorted(events) ==
    IF events = <<>> THEN <<>>
    ELSE InsertSorted(Sorted(SubSeq(events, 1, Len(events) - 1)), events[Len(events)])

\* the walk over one session's sorted events (lines 139-146)
RECURSIVE WalkWarnings(_, _, _)
WalkWarnings(sid, sorted, prev_seq) ==
    IF sorted = <<>> THEN <<>>
    ELSE (IF IsInstanceInt(sorted[1].seq) /\ NumValue(sorted[1].seq) = prev_seq + 1
          THEN <<>>
          ELSE <<[kind |-> "non_sequential", session |-> sid,
                  expected |-> prev_seq + 1, actual |-> sorted[1].seq,
                  event_id |-> sorted[1].event_id]>>)
         \o (IF Len(sorted) = 1 THEN <<>>
             ELSE WalkWarnings(sid, Tail(sorted), NumValue(sorted[1].seq)))
\* sorting or prev_seq + 1 raises TypeError: a sequence that is no number
\* in a session of several events
SessionRaises(events) ==
    Len(events) > 1 /\ \E i \in DOMAIN events : ~IsInstanceInt(events[i].seq)
RECURSIVE SessionWarnings(_)
SessionWarnings(sessions) ==
    IF sessions = <<>> THEN <<>>
    ELSE WalkWarnings(sessions[1].session_id, Sorted(sessions[1].events), 0)
         \o SessionWarnings(Tail(sessions))

\* results, seen_event_ids (lines 42-50)
VT_Start(n) ==
    /\ script = "validate_tags"
    /\ vt.pc \in {"idle", "returned", "raised"}
    /\ vt' = [IdleValidate EXCEPT !.pc = "loop", !.nlines = n]
    /\ UNCHANGED <<script, ex, evalVars, routing_events, it>>

\* the frame when an exception leaves the function: nothing is returned
RaisedValidate == [IdleValidate EXCEPT !.pc = "raised"]

\* the checks of one line once its event_id is at hand (lines 68-134);
\* f is the frame with total counted
ValidateRecord(f, n, event) ==
    LET event_id == event.f["event_id"]
        dup == IF PyKey(event_id) \in f.seen_event_ids
               THEN <<ErrorAt(n, "duplicate", "event_id")>> ELSE <<>>
        g == [f EXCEPT !.seen_event_ids = @ \cup {PyKey(event_id)},
                       !.results.errors = @ \o dup]
    IN  IF ~KeyIn("tags", event)
        THEN [g EXCEPT !.results.errors = Append(@, ErrorAt(n, "missing_tags", "tags"))]
        ELSE LET tags == event.f["tags"]
             IN  IF ~HasIn(tags)
                 THEN RaisedValidate
                 ELSE IF MissingErrors(n, tags, REQUIRED_FIELDS) # <<>>
                 THEN [g EXCEPT !.results.errors =
                                   @ \o MissingErrors(n, tags, REQUIRED_FIELDS)]
                 ELSE LET hard == BoolErrors(n, tags, BoolFields)
                                  \o RequestTypeErrors(n, tags)
                                  \o SequenceErrors(n, tags)
                      IN  IF tags.f["session_id"].t # "str"
                          THEN RaisedValidate
                          ELSE [g EXCEPT
                                  !.results.errors = @ \o hard,
                                  !.results.warnings = @ \o LineWarnings(n, tags),
                                  !.results.sessions =
                                      SessionAppend(@, tags.f["session_id"].s,
                                          [seq |-> tags.f["request_sequence"],
                                           event_id |-> event_id]),
                                  !.results.valid = IF hard = <<>> THEN @ + 1 ELSE @]

\* one iteration of the loop (lines 53-134)
ValidateLine(f0, line) ==
    LET n == f0.line_num + 1
        f == [f0 EXCEPT !.line_num = n, !.line = line, !.file = Append(@, line),
                        !.results.total = @ + 1]
    IN  IF JsonDecodeError(line)
        THEN [f EXCEPT !.results.errors = Append(@, ErrorAt(n, "invalid_json", ""))]
        ELSE IF ~HasIn(JsonLoads(line))
        THEN RaisedValidate
        ELSE IF ~KeyIn("event_id", JsonLoads(line))
        THEN [f EXCEPT !.results.errors =
                          Append(@, ErrorAt(n, "missing_event_id", "event_id"))]
        ELSE IF ~Hashable(JsonLoads(line).f["event_id"])
        THEN RaisedValidate
        ELSE ValidateRecord(f, n, JsonLoads(line))

VT_Line(line) ==
    /\ script = "validate_tags"
    /\ vt.pc = "loop"
    /\ vt.line_num < vt.nlines
    /\ vt' = ValidateLine(vt, line)
    /\ UNCHANGED <<script, ex, evalVars, routing_events, it>>

\* the session check after the loop, and return results (lines 136-148)
VT_Finish ==
    /\ script = "validate_tags"
    /\ vt.pc = "loop"
    /\ vt.line_num = vt.nlines
    /\ vt' = IF \E i \in DOMAIN vt.results.sessions :
                   SessionRaises(vt.results.sessions[i].events)
             THEN RaisedValidate
             ELSE [IdleValidate EXCEPT
                     !.pc = "returned", !.file = vt.file, !.again = vt.again,
                     !.results = [vt.results EXCEPT !.warnings =
                                     @ \o SessionWarnings(vt.results.sessions)]]
    /\ UNCHANGED <<script, ex, evalVars, routing_events, it>>

\* a second call that goes on with the results of the first
RerunFrameShared(f) ==
    [IdleValidate EXCEPT !.pc = "loop", !.nlines = Len(f.file),
                         !.results = f.results,
                         !.again = [on |-> TRUE, file |-> f.file, results |-> f.results]]
\* validate_tags called again on the file the returned run has read: results
\* and seen_event_ids are built anew by the call (lines 42-50)
RerunFrame(f) ==
    [IdleValidate EXCEPT !.pc = "loop", !.nlines = Len(f.file),
                         !.again = [on |-> TRUE, file |-> f.file, results |-> f.results]]
VT_Again ==
    /\ script = "validate_tags"
    /\ vt.pc = "returned"
    /\ ~vt.again.on
    /\ vt' = RerunFrame(vt)
    /\ UNCHANGED <<script, ex, evalVars, routing_events, it>>
\* the next line of a file that is read again
VT_LineAgain ==
    /\ vt.again.on
    /\ vt.pc = "loop"
    /\ vt.line_num < vt.nlines
    /\ VT_Line(vt.again.file[vt.line_num + 1])

\* the batches of validate_tags
ValidRecord(e, s) ==
    Line(JObj([event_id |-> JStr(e),
               tags |-> JObj(WithField(GoodTags, "request_sequence", JInt(s)))]))
Changed(e, k, v) ==
    Line(JObj([event_id |-> JStr(e), tags |-> JObj(WithField(GoodTags, k, v))]))
ValidateLines ==
    {BadLine, Line(JInt(7)), Line(JList),
     Line(JObj([tags |-> JObj(GoodTags)])),
     Line(JObj([event_id |-> JStr("e1")])),
     Line(JObj([event_id |-> JList, tags |-> JObj(GoodTags)])),
     Line(JObj([event_id |-> JStr("e1"), tags |-> JList])),
     Line(JObj([event_id |-> JStr("e1"), tags |-> JInt(7)])),
     Line(JObj([event_id |-> JStr("e2"),
                tags |-> JObj(Without(GoodTags, {"request_sequence"}))])),
     ValidRecord("e1", 1), ValidRecord("e2", 2), ValidRecord("e3", 4),
     Changed("e2", "is_new_request", JInt(1)),
     Changed("e2", "request_type", JStr("bogus")),
     Changed("e2", "request_sequence", JInt(0)),
     Changed("e2", "request_sequence", JBool(TRUE)),
     Changed("e2", "request_sequence", JStr("2")),
     Changed("e3", "session_id", JStr("s9")),
     Changed("e3", "session_id", JInt(3)),
     Changed("e3", "confidence", JStr("bogus"))}

\* ---------------------------------------------------------- specifications
Scripts == {"add_tags", "import_tags", "validate_tags"}

Init ==
    /\ script \in Scripts
    /\ has_collab_table \in (IF script = "add_tags" THEN BOOLEAN ELSE {TRUE})
    /\ evaluation_dataset = EvalEvents
    /\ collaboration_tags = <<>>
    /\ txn = [p \in Procs |-> <<>>]
    /\ write_lock = "none"
    /\ at = [p \in Procs |-> IdleFrame]
    /\ routing_events = [id \in RoutingIds |-> BaseRow(id)]
    /\ it = IdleImport
    /\ vt = IdleValidate
    /\ ex = IdleExport

\* batch runs executed one after another
Next ==
    \/ \E g \in Taggers, n \in 0..MaxLinesAdd : AT_Start("p1", g, n)
    \/ AT_Step("p1", AddLines)
    \/ \E d \in BOOLEAN, src \in Sources, now \in Times, n \in 0..MaxLinesImport :
           IT_Start(d, src, now, n)
    \/ \E line \in ImportLines : IT_LoadLine(line)
    \/ IT_Loaded
    \/ IT_Event
    \/ IT_Commit
    \/ \E n \in 0..MaxLinesValidate : VT_Start(n)
    \/ \E line \in ValidateLines : VT_Line(line)
    \/ VT_Finish

Spec == Init /\ [][Next]_vars

\* importer processes running at the same time against the same store
ConcurrentLines ==
    {Line(JObj([event_id |-> JStr("ev_a"), tags |-> JObj(GoodTags)])),
     Line(JObj([event_id |-> JStr("ev_gone"), tags |-> JObj(GoodTags)]))}

InitConcurrent == Init /\ script = "add_tags" /\ has_collab_table

NextConcurrent ==
    \E p \in Procs :
        \/ \E g \in Taggers, n \in 1..MaxLinesAdd : AT_Start(p, g, n)
        \/ AT_Step(p, ConcurrentLines)
        \/ AT_CommitBusy(p)

SpecConcurrent == InitConcurrent /\ [][NextConcurrent]_vars

\* validate_tags on batches of one record, over every combination of the
\* values of the checked fields and every set of omitted required fields
RecordLines ==
    {Line(JObj([event_id |-> JStr("e1"),
                tags |-> JObj(Without(GoodTags, K))])) :
        K \in SUBSET {REQUIRED_FIELDS[i] : i \in DOMAIN REQUIRED_FIELDS}}
    \cup
    {Line(JObj([event_id |-> JStr("e1"),
                tags |-> JObj([GoodTags EXCEPT !.is_new_request = a,
                                              !.is_followup = b,
                                              !.is_correction = c,
                                              !.request_type = d,
                                              !.request_sequence = e])])) :
        a \in {JBool(TRUE), JInt(1), JStr("yes")},
        b \in {JBool(FALSE), JInt(0)},
        c \in {JBool(FALSE), JNull},
        d \in {JStr(x) : x \in VALID_REQUEST_TYPES \cup {"bogus"}} \cup {JNull},
        e \in {JInt(1), JInt(2), JInt(0), JInt(-1), JBool(TRUE), JBool(FALSE),
               JStr("1"), JNull}}

InitRecord == Init /\ script = "validate_tags"

NextRecord ==
    \/ \E n \in {1} : VT_Start(n)
    \/ \E line \in RecordLines : VT_Line(line)
    \/ VT_Finish

SpecRecord == InitRecord /\ [][NextRecord]_vars

\* validate_tags on batches whose lines repeat event identifiers: the same
\* identifier with the same tags, with other tags, without tags, and
\* identifiers that are a number and a boolean
DuplicateLines ==
    {ValidRecord("e1", 1), ValidRecord("e2", 2),
     Changed("e1", "request_type", JStr("bogus")),
     Line(JObj([event_id |-> JStr("e1")])),
     Line(JObj([event_id |-> JInt(1), tags |-> JObj(GoodTags)])),
     Line(JObj([event_id |-> JBool(TRUE), tags |-> JObj(GoodTags)]))}

NextDuplicates ==
    \/ \E n \in 1..MaxLinesValidate : VT_Start(n)
    \/ \E line \in DuplicateLines : VT_Line(line)
    \/ VT_Finish

SpecDuplicates == InitRecord /\ [][NextDuplicates]_vars

\* validate_tags run on a file and then run again on the same file
TwiceLines ==
    {BadLine, Line(JObj([tags |-> JObj(GoodTags)])),
     ValidRecord("e1", 1), ValidRecord("e2", 2), ValidRecord("e3", 4),
     Changed("e1", "request_type", JStr("bogus")),
     Changed("e2", "request_sequence", JStr("2")),
     Changed("e3", "session_id", JStr("s9"))}

NextTwice ==
    \/ \E n \in 1..MaxLinesValidate : VT_Start(n)
    \/ \E line \in TwiceLines : ~vt.again.on /\ VT_Line(line)
    \/ VT_LineAgain
    \/ VT_Finish
    \/ VT_Again

SpecTwice == InitRecord /\ [][NextTwice]_vars

\* events exported by export_events, tagged, and imported by import_tags
\* into the store they came from
RowIds == {1, 42, 999999, 1000000, 1234567}
ExportArgs == {JNull, JInt(42)} \X {JNull, JInt(1000000)} \X {JNull, JInt(0), JInt(1)}

InitRoundTrip ==
    /\ script = "import_tags"
    /\ has_collab_table = TRUE
    /\ evaluation_dataset = EvalEvents
    /\ collaboration_tags = <<>>
    /\ txn = [p \in Procs |-> <<>>]
    /\ write_lock = "none"
    /\ at = [p \in Procs |-> IdleFrame]
    /\ \E S \in SUBSET RowIds :
           /\ Cardinality(S) \in 1..MaxExportRows
           /\ routing_events = [id \in S |-> BaseRow(id)]
    /\ it = IdleImport
    /\ vt = IdleValidate
    /\ ex = IdleExport

NextRoundTrip ==
    \/ \E a \in ExportArgs : EX_Export(a[1], a[2], a[3])
    \/ \E src \in Sources, now \in Times :
           ex.pc = "returned" /\ IT_Start(FALSE, src, now, Len(ex.output))
    \/ IT_LoadExported
    \/ IT_Loaded
    \/ IT_Event
    \/ IT_Commit

SpecRoundTrip == InitRoundTrip /\ [][NextRoundTrip]_vars

\* ------------------------------------------------------------------ claims
\* the rows of a table for one (event, tagger) pair, in the order written
RowsOf(rows, e, g) == SelectSeq(rows, LAMBDA r : r.event_id = e /\ r.tagger_id = g)

\* C1: after batch runs of add_tags_from_jsonl executed one after another,
\* the rows stored for every (event, tagger) pair carry the versions 1..k
\* with no gap and no repeat, the n-th row written carrying version n.
C1_VersionsGapless ==
    \A e \in EvalEvents, g \in Taggers :
        LET rs == RowsOf(Visible("p1"), e, g)
        IN  \A i \in DOMAIN rs : rs[i].tag_version = i
\* a pair tagged in an earlier run is given its third version by a later run
C1_Witness ==
    \E e \in EvalEvents, g \in Taggers :
        /\ Len(RowsOf(collaboration_tags, e, g)) >= 1
        /\ Len(RowsOf(txn["p1"], e, g)) >= 1
        /\ Len(RowsOf(Visible("p1"), e, g)) >= 3

\* C2: two importers running at the same time never both hold the same
\* next_version for the same (event_id, tagger_id), and no two stored rows
\* share (event_id, tagger_id, tag_version).
C2_AtomicNextVersion ==
    /\ \A p, q \in Procs :
           (/\ p # q
            /\ at[p].pc = "insert" /\ at[q].pc = "insert"
            /\ at[p].tagger_id = at[q].tagger_id
            /\ EventIdOf(JsonLoads(at[p].line)) = EventIdOf(JsonLoads(at[q].line)))
           => at[p].next_version # at[q].next_version
    /\ \A i, j \in DOMAIN collaboration_tags :
           (/\ i # j
            /\ collaboration_tags[i].event_id = collaboration_tags[j].event_id
            /\ collaboration_tags[i].tagger_id = collaboration_tags[j].tagger_id)
           => collaboration_tags[i].tag_version # collaboration_tags[j].tag_version

\* C3: a later import never updates or deletes a stored tag: every row of
\* collaboration_tags stays as it is, and the tag values a tagger stored on a
\* routing event stay as they are.
Tagged(row) == "tag_source" \in DOMAIN row /\ row["tag_source"] # JNull
C3_EarlierTagsKept ==
    [][/\ \A i \in DOMAIN collaboration_tags :
              /\ i \in DOMAIN collaboration_tags'
              /\ collaboration_tags'[i] = collaboration_tags[i]
       /\ \A id \in DOMAIN routing_events :
              Tagged(routing_events[id]) =>
                  \A c \in ImportTagColumns :
                      routing_events'[id][c] = routing_events[id][c]]_vars

\* C4: no import changes a row or the shape of the table of canonical events
\* (evaluation_dataset, routing_events).
C4_EventTableReadOnly ==
    [][evaluation_dataset' = evaluation_dataset
       /\ routing_events' = routing_events]_vars

\* C5: no batch line aborts a run: add_tags_from_jsonl, import_tags and
\* validate_tags never leave by an exception.
C5_NoLineAborts ==
    /\ \A p \in Procs : at[p].pc # "raised"
    /\ it.pc # "raised"
    /\ vt.pc # "raised"

\* C6: a tag row written for a line stays in the store whatever happens on a
\* later line: a written row is never lost, and an update once made to a
\* routing event is still there at the end of the run.
C6_WrittenRowsDurable ==
    [][/\ \A p \in Procs :
              Range(txn[p]) \subseteq Range(txn'[p]) \cup Range(collaboration_tags')
       /\ (it.pc = "events" /\ it'.pc # "events") => routing_events' = it.view]_vars

\* C7: a line whose event_id is well formed and matches no event adds one to
\* the not-found counter, adds no error string, is not counted as imported or
\* matched, and writes nothing.
WellFormedEvt(s) ==
    /\ Len(s) > Len(EvtPrefix)
    /\ SubSeq(s, 1, Len(EvtPrefix)) = EvtPrefix
    /\ \A i \in (Len(EvtPrefix) + 1)..Len(s) : IsDigit(s[i])
EvtNumber(s) == DigitsValue(SubSeq(s, Len(EvtPrefix) + 1, Len(s)), 0)
UnmatchedAddLine(line) ==
    /\ line.ok
    /\ line.v.t = "object"
    /\ "event_id" \in DOMAIN line.v.f
    /\ line.v.f["event_id"].t = "str"
    /\ line.v.f["event_id"].s \notin evaluation_dataset
UnmatchedImportEvent(event) ==
    /\ event.t = "object"
    /\ "event_id" \in DOMAIN event.f
    /\ event.f["event_id"].t = "str"
    /\ WellFormedEvt(event.f["event_id"].s)
    /\ EvtNumber(event.f["event_id"].s) \notin DOMAIN routing_events
C7_NotFoundCounted ==
    [][/\ \A p \in Procs :
              (/\ at[p].pc = "loop"
               /\ at'[p].line_num = at[p].line_num + 1
               /\ UnmatchedAddLine(at'[p].line))
              => /\ at'[p].pc = "loop"
                 /\ at'[p].stats.event_not_found = at[p].stats.event_not_found + 1
                 /\ at'[p].stats.errors = at[p].stats.errors
                 /\ at'[p].stats.imported = at[p].stats.imported
                 /\ collaboration_tags' = collaboration_tags
                 /\ txn' = txn
       /\ (/\ it.pc = "events"
           /\ it.idx < Len(it.tagged_events)
           /\ it' # it
           /\ UnmatchedImportEvent(it.tagged_events[it.idx + 1]))
          => /\ it'.pc = "events"
             /\ it'.idx = it.idx + 1
             /\ it'.stats.not_found = it.stats.not_found + 1
             /\ it'.stats.errors = it.stats.errors
             /\ it'.stats.matched = it.stats.matched
             /\ it'.view = it.view
             /\ routing_events' = routing_events]_vars
\* the second line of a batch names a missing event, the first was imported
C7_Witness ==
    /\ at["p1"].pc = "loop"
    /\ at["p1"].line_num = 2
    /\ UnmatchedAddLine(at["p1"].line)
    /\ at["p1"].stats.event_not_found = 1
    /\ at["p1"].stats.imported = 1
    /\ at["p1"].stats.errors = <<>>

\* C8: import_tags resolves evt_ followed by a zero-padded decimal number N to
\* the event with key N; every other identifier is recorded as an invalid
\* identifier, its line is skipped, nothing is written, and the run goes on.
C8_PrefixedNumericOnly ==
    [][(/\ it.pc = "events"
        /\ it.idx < Len(it.tagged_events)
        /\ it' # it
        /\ it.tagged_events[it.idx + 1].t = "object")
       => LET event_id == Get(it.tagged_events[it.idx + 1], "event_id", JStr(<<>>))
          IN  IF event_id.t = "str" /\ WellFormedEvt(event_id.s)
              THEN \/ it'.pc = "raised"
                   \/ it'.stats.errors = it.stats.errors
                      /\ \A id \in DOMAIN it.view :
                             id # EvtNumber(event_id.s) => it'.view[id] = it.view[id]
                      /\ (EvtNumber(event_id.s) \in DOMAIN it.view
                              <=> it'.stats.matched = it.stats.matched + 1)
              ELSE /\ it'.pc = "events"
                   /\ it'.idx = it.idx + 1
                   /\ Len(it'.stats.errors) = Len(it.stats.errors) + 1
                   /\ it'.stats.errors[Len(it'.stats.errors)].kind = "invalid_event_id"
                   /\ it'.stats.matched = it.stats.matched
                   /\ it'.view = it.view]_vars

\* C9: in validate_tags a record whose tags omit required fields is not
\* counted valid and gets exactly one error for each omitted field, naming it,
\* and no other diagnostic for its fields.
RequiredNames ==
    {"is_new_request", "is_followup", "is_correction", "request_type",
     "expected_outcome", "session_id", "request_sequence"}
HasTagsDict(line) ==
    /\ line.ok
    /\ line.v.t = "object"
    /\ "event_id" \in DOMAIN line.v.f
    /\ "tags" \in DOMAIN line.v.f
    /\ line.v.f["tags"].t = "object"
Omitted(line) == RequiredNames \ DOMAIN line.v.f["tags"].f
NewErrors == SubSeq(vt'.results.errors, Len(vt.results.errors) + 1,
                    Len(vt'.results.errors))
FieldErrors == SelectSeq(NewErrors, LAMBDA e : e.kind # "duplicate")
LineProcessed == vt.pc = "loop" /\ vt'.pc = "loop" /\ vt'.line_num = vt.line_num + 1
C9_OmittedFieldErrors ==
    [][(LineProcessed /\ HasTagsDict(vt'.line) /\ Omitted(vt'.line) # {})
       => /\ vt'.results.valid = vt.results.valid
          /\ SubSeq(vt'.results.errors, 1, Len(vt.results.errors)) = vt.results.errors
          /\ Len(FieldErrors) = Cardinality(Omitted(vt'.line))
          /\ {e.field : e \in Range(FieldErrors)} = Omitted(vt'.line)
          /\ \A e \in Range(FieldErrors) :
                 e.kind = "missing_field" /\ e.line = vt'.line_num
          /\ vt'.results.warnings = vt.results.warnings
          /\ vt'.results.sessions = vt.results.sessions]_vars
\* a record omitting only request_sequence got one error, naming that field
C9_Witness ==
    /\ vt.pc = "loop"
    /\ vt.line_num = 1
    /\ HasTagsDict(vt.line)
    /\ Omitted(vt.line) = {"request_sequence"}
    /\ vt.results.valid = 0
    /\ vt.results.errors = <<[line |-> 1, kind |-> "missing_field",
                              field |-> "request_sequence"]>>

\* C10: a record with every required field is counted valid if and only if
\* the three classification fields are booleans, request_sequence is an
\* integer (not a boolean) that is at least 1, and request_type is one of the
\* five types; each failed check adds an error.
IsBoolean(v) == v.t = "bool"
IsPositiveInteger(v) == v.t = "int" /\ v.n >= 1
FailedChecks(tags) ==
    {k \in {"is_new_request", "is_followup", "is_correction"} : ~IsBoolean(tags[k])}
    \cup (IF IsPositiveInteger(tags["request_sequence"]) THEN {} ELSE {"request_sequence"})
    \cup (IF tags["request_type"].t = "str"
             /\ tags["request_type"].s \in {"procedural", "query", "action", "meta", "unclear"}
          THEN {} ELSE {"request_type"})
C10_ValidIffChecksPass ==
    [][(LineProcessed /\ HasTagsDict(vt'.line) /\ Omitted(vt'.line) = {})
       => /\ (vt'.results.valid = vt.results.valid + 1
                  <=> FailedChecks(vt'.line.v.f["tags"].f) = {})
          /\ vt'.results.valid \in {vt.results.valid, vt.results.valid + 1}
          /\ {e.field : e \in Range(FieldErrors)} = FailedChecks(vt'.line.v.f["tags"].f)]_vars

\* C11: a record that failed a hard check (a classification field that is not
\* boolean, an invalid request_type, a request_sequence that is not a positive
\* integer) adds no entry to the sequence of any session.
HardKinds == {"not_boolean", "invalid_request_type", "request_sequence"}
C11_SessionsOnlyAccepted ==
    [][(LineProcessed /\ \E e \in Range(NewErrors) : e.kind \in HardKinds)
       => vt'.results.sessions = vt.results.sessions]_vars

\* C12: for every session of a batch, validate_tags returns one non-sequential
\* warning for exactly each request_sequence value that, the values taken
\* ascending, is not one greater than the value before it (0 before the
\* first), naming the session, the expected value, the actual value and the
\* event; a session gets no such warning if and only if its values are
\* exactly 1..n.
\* the positions of a session's entries, smallest value first, equal values
\* in the order of their lines
AscendingOrder(events) ==
    CHOOSE p \in [1..Len(events) -> 1..Len(events)] :
        /\ \A i, j \in 1..Len(events) : i # j => p[i] # p[j]
        /\ \A i, j \in 1..Len(events) :
               i < j => \/ NumValue(events[p[i]].seq) < NumValue(events[p[j]].seq)
                        \/ /\ NumValue(events[p[i]].seq) = NumValue(events[p[j]].seq)
                           /\ p[i] < p[j]
GapWarnings(sid, events) ==
    LET p == AscendingOrder(events)
        all == [i \in 1..Len(events) |->
                   [kind |-> "non_sequential", session |-> sid,
                    expected |-> (IF i = 1 THEN 0 ELSE NumValue(events[p[i - 1]].seq)) + 1,
                    actual |-> events[p[i]].seq,
                    event_id |-> events[p[i]].event_id]]
    IN  SelectSeq(all, LAMBDA w : ~(IsInstanceInt(w.actual)
                                    /\ NumValue(w.actual) = w.expected))
RECURSIVE ExpectedGapWarnings(_)
ExpectedGapWarnings(sessions) ==
    IF sessions = <<>> THEN <<>>
    ELSE GapWarnings(sessions[1].session_id, sessions[1].events)
         \o ExpectedGapWarnings(Tail(sessions))
ExactlyOneToN(events) ==
    /\ \A i \in DOMAIN events : IsInstanceInt(events[i].seq)
    /\ {NumValue(events[i].seq) : i \in DOMAIN events} = 1..Len(events)
FinishStep == vt.pc = "loop" /\ vt.line_num = vt.nlines /\ vt' # vt
NewWarnings == SubSeq(vt'.results.warnings, Len(vt.results.warnings) + 1,
                      Len(vt'.results.warnings))
C12_SequenceGapsWarned ==
    [][FinishStep
       => /\ vt'.pc = "returned"
          /\ NewWarnings = ExpectedGapWarnings(vt.results.sessions)
          /\ \A i \in DOMAIN vt.results.sessions :
                 (\A w \in Range(NewWarnings) :
                      w.session # vt.results.sessions[i].session_id)
                 <=> ExactlyOneToN(vt.results.sessions[i].events)]_vars

\* C13: of the lines of a batch that carry one event_id, the first gets no
\* duplicate error and every later one gets exactly one, reported at its own
\* line, whatever the tags of the occurrences and whether or not the earlier
\* occurrence was valid.
CarriesEventId(line) ==
    line.ok /\ line.v.t = "object" /\ "event_id" \in DOMAIN line.v.f
EarlierCarriers(file, line) ==
    {i \in DOMAIN file : /\ CarriesEventId(file[i])
                         /\ file[i].v.f["event_id"] = line.v.f["event_id"]}
DuplicateErrors == SelectSeq(NewErrors, LAMBDA e : e.kind = "duplicate")
C13_DuplicateAtLaterOccurrence ==
    [][(LineProcessed /\ CarriesEventId(vt'.line))
       => /\ Len(DuplicateErrors) =
                 (IF EarlierCarriers(vt.file, vt'.line) = {} THEN 0 ELSE 1)
          /\ \A e \in Range(DuplicateErrors) : e.line = vt'.line_num]_vars

\* C14: the valid count of validate_tags never includes a line for which an
\* error was recorded, a duplicate error included: a line adds one to valid
\* if and only if it added no error.
C14_DuplicateNotValid ==
    [][LineProcessed
       => /\ vt'.results.valid \in {vt.results.valid, vt.results.valid + 1}
          /\ (vt'.results.valid = vt.results.valid + 1 <=> NewErrors = <<>>)]_vars

\* C15: in a commit-mode import a record with a hard validation error (tags
\* that are no mapping, a required field missing, a classification field that
\* is not boolean, a request_type outside the enumeration, a request_sequence
\* that is not a positive integer) is not written and is not counted in
\* imported or matched.
HardError(tags) ==
    \/ tags.t # "object"
    \/ RequiredNames \ DOMAIN tags.f # {}
    \/ FailedChecks(tags.f) # {}
C15_OnlyAcceptedWritten ==
    [][/\ \A p \in Procs :
              (/\ at[p].pc = "insert"
               /\ at'[p].pc = "loop"
               /\ HardError(TagsOf(JsonLoads(at[p].line))))
              => /\ txn'[p] = txn[p]
                 /\ at'[p].stats.imported = at[p].stats.imported
       /\ (/\ it.pc = "events"
           /\ it'.pc = "events"
           /\ it'.idx = it.idx + 1
           /\ HardError(Get(it.tagged_events[it.idx + 1], "tags", JObj(EmptyDict))))
          => /\ it'.view = it.view
             /\ it'.stats.matched = it.stats.matched]_vars

\* C16: in every operation that reads a batch, a line that is not valid JSON,
\* or that lacks the event_id key or the tags key, is counted in total, adds
\* an error carrying the line's 1-based number, is not counted in imported,
\* matched, valid or the not-found counter, and nothing is written for it.
LacksKey(v) == v.t = "object" /\ ~({"event_id", "tags"} \subseteq DOMAIN v.f)
BadOrLacking(line) == ~line.ok \/ LacksKey(line.v)
\* new extends old by at least one error, each naming line n
ErrorsAddedAt(old, new, n) ==
    /\ Len(new) > Len(old)
    /\ SubSeq(new, 1, Len(old)) = old
    /\ \A i \in (Len(old) + 1)..Len(new) : new[i].line = n
C16_ParseLevelErrors ==
    [][/\ \A p \in Procs :
              (/\ at[p].pc = "loop"
               /\ at'[p].line_num = at[p].line_num + 1
               /\ BadOrLacking(at'[p].line))
              => /\ at'[p].pc = "loop"
                 /\ at'[p].stats.total = at[p].stats.total + 1
                 /\ ErrorsAddedAt(at[p].stats.errors, at'[p].stats.errors,
                                  at'[p].line_num)
                 /\ at'[p].stats.imported = at[p].stats.imported
                 /\ at'[p].stats.event_not_found = at[p].stats.event_not_found
                 /\ txn' = txn
       /\ (it.pc = "load" /\ it'.pc \in {"events", "returned"})
          => /\ it'.stats.total = it.line_num
             /\ \A i \in DOMAIN it'.stats.errors : it'.stats.errors[i].line >= 1
       /\ (/\ it.pc = "events"
           /\ it.idx < Len(it.tagged_events)
           /\ it' # it
           /\ LacksKey(it.tagged_events[it.idx + 1]))
          => /\ it'.pc = "events"
             /\ Len(it'.stats.errors) = Len(it.stats.errors) + 1
             /\ it'.stats.errors[Len(it'.stats.errors)].line >= 1
             /\ it'.stats.matched = it.stats.matched
             /\ it'.stats.not_found = it.stats.not_found
             /\ it'.view = it.view
       /\ (LineProcessed /\ BadOrLacking(vt'.line))
          => /\ vt'.results.total = vt.results.total + 1
             /\ ErrorsAddedAt(vt.results.errors, vt'.results.errors, vt'.line_num)
             /\ vt'.results.valid = vt.results.valid
             /\ vt'.results.sessions = vt.results.sessions]_vars

\* C17: when the store has no table collaboration_tags, add_tags_from_jsonl
\* returns at once a report with exactly one error, total = 0, imported = 0
\* and event_not_found = 0, having read no line and leaving the store as it
\* was.
StartStep(p) == at[p].pc \in {"idle", "returned", "raised"} /\ at'[p] # at[p]
C17_MissingTableFatal ==
    [][\A p \in Procs :
           (StartStep(p) /\ ~has_collab_table)
           => /\ at'[p].pc = "returned"
              /\ Len(at'[p].stats.errors) = 1
              /\ at'[p].stats.errors[1].kind = "no_table"
              /\ at'[p].stats.total = 0
              /\ at'[p].stats.imported = 0
              /\ at'[p].stats.event_not_found = 0
              /\ at'[p].line_num = 0
              /\ collaboration_tags' = collaboration_tags
              /\ txn' = txn
              /\ evaluation_dataset' = evaluation_dataset
              /\ has_collab_table' = has_collab_table]_vars
\* a run against a store without the table has returned its report
C17_Witness ==
    /\ ~has_collab_table
    /\ at["p1"].pc = "returned"
    /\ Len(at["p1"].stats.errors) = 1
    /\ at["p1"].stats.total = 0

\* C18: a dry run of import_tags writes nothing: no step of it changes the
\* rows or the columns of routing_events, it never connects to the store, and
\* the report it returns has matched = 0 and not_found = 0.
C18_DryRunWritesNothing ==
    [][(it.pc = "load" /\ it.dry_run)
       => /\ routing_events' = routing_events
          /\ it'.pc \in {"load", "returned", "raised"}
          /\ it'.pc = "returned"
                 => it'.stats.matched = 0 /\ it'.stats.not_found = 0]_vars
\* a dry run of a batch with a parsed line has returned, and the store has
\* still the shape it had before any import
C18_Witness ==
    /\ it.pc = "returned"
    /\ it.stats.total >= 1
    /\ it.stats.matched = 0
    /\ routing_events = [id \in RoutingIds |-> BaseRow(id)]

LineNumbered(errors) ==
    /\ \A i \in DOMAIN errors : errors[i].line >= 1
    /\ \A i, j \in DOMAIN errors : i < j => errors[i].line <= errors[j].line
C20_ErrorsNameLines ==
    /\ \A p \in Procs :
           LineNumbered(SelectSeq(at[p].stats.errors, LAMBDA e : e.kind # "no_table"))
    /\ LineNumbered(it.stats.errors)
    /\ LineNumbered(vt.results.errors)

\* C21: an import run that has opened a connection to the store has closed
\* it, after commit or rollback, on whatever path it leaves: the end of the
\* batch, the return for the missing table, an exception raised while a
\* record is processed; and no run is left by an exception while rows it
\* wrote wait uncommitted on a connection that was never closed.
C21_ConnectionReleased ==
    [][/\ \A p \in Procs :
              at'[p].pc \in {"returned", "raised"} => at'[p].conn = "closed"
       /\ it'.pc \in {"returned", "raised"} => it'.conn \in {"none", "closed"}
       /\ \A p \in Procs :
              (at[p].in_txn /\ at'[p].pc = "raised") => at'[p].conn = "closed"]_vars

\* C22: in a run of add_tags_from_jsonl on a store that has the table, after
\* every whole line and at return total = imported + event_not_found + the
\* number of errors, total is the number of lines read, no counter ever goes
\* down, and imported is the number of rows the run has added: the rows of
\* its transaction, which the commit at return appends to the table.
C22_Accounting ==
    [][\A p \in Procs :
           (has_collab_table /\ at'[p].pc \in {"loop", "returned"})
           => /\ at'[p].stats.total = at'[p].stats.imported
                                      + at'[p].stats.event_not_found
                                      + Len(at'[p].stats.errors)
              /\ at'[p].pc = "loop"
                     => /\ at'[p].stats.total = at'[p].line_num
                        /\ at'[p].stats.imported = Len(txn'[p])
              /\ at[p].pc \in {"loop", "insert"}
                     => /\ at'[p].stats.total >= at[p].stats.total
                        /\ at'[p].stats.imported >= at[p].stats.imported
                        /\ at'[p].stats.event_not_found >= at[p].stats.event_not_found
                        /\ Len(at'[p].stats.errors) >= Len(at[p].stats.errors)
              /\ (at[p].pc = "loop" /\ at'[p].pc = "returned")
                     => /\ at'[p].stats = at[p].stats
                        /\ Len(collaboration_tags') =
                               Len(collaboration_tags) + at'[p].stats.imported
                        /\ SubSeq(collaboration_tags', 1, Len(collaboration_tags)) =
                               collaboration_tags]_vars
\* a run has returned after one line imported and one line that added an
\* error, its row stored
C22_Witness ==
    /\ has_collab_table
    /\ at["p1"].pc = "returned"
    /\ at["p1"].stats.total = 2
    /\ at["p1"].stats.imported = 1
    /\ Len(at["p1"].stats.errors) = 1
    /\ Len(collaboration_tags) >= 1

\* C23: an identifier written by export_events, "evt_" and the row id
\* zero-padded to at least six digits, is resolved by import_tags to the row
\* it was exported from, ids of more than six digits included, and distinct
\* rows get distinct identifiers: importing the tagged export updates, event
\* by event, exactly the row the event was exported from.
ExportedBatch ==
    /\ ex.pc = "returned"
    /\ Len(it.tagged_events) = Len(ex.output)
    /\ \A i \in DOMAIN ex.output :
           it.tagged_events[i] = TaggedLine(ex.output[i]).v
ResolvesToOwnRow ==
    LET id == ex.rows[it.idx + 1]["id"].n
    IN  /\ it'.pc = "events"
        /\ it'.idx = it.idx + 1
        /\ it'.stats = [it.stats EXCEPT !.matched = @ + 1]
        /\ DOMAIN it'.view = DOMAIN it.view
        /\ it'.view[id]["id"] = ex.rows[it.idx + 1]["id"]
        /\ it'.view[id] = UpdateRow(it.view[id], JObj(GoodTags), it.source, it.timestamp)
        /\ \A other \in DOMAIN it.view \ {id} : it'.view[other] = it.view[other]
DistinctIdentifiers(f) ==
    \A i, j \in DOMAIN f.rows :
        /\ IntValue(ReplaceEvt(f.output[i].f["event_id"].s)) = f.rows[i]["id"].n
        /\ (f.rows[i]["id"] # f.rows[j]["id"]
               => f.output[i].f["event_id"] # f.output[j].f["event_id"])
C23_IdentifierRoundTrip ==
    [][/\ ex' # ex => DistinctIdentifiers(ex')
       /\ (it.pc = "events" /\ it.idx < Len(it.tagged_events) /\ ExportedBatch
              /\ it' # it)
           => ResolvesToOwnRow]_vars
C23_Witness ==
    /\ ex.pc = "returned"
    /\ Len(ex.output) = 2
    /\ it.pc = "returned"
    /\ it.stats.matched = 2
    /\ it.stats.not_found = 0
    /\ it.stats.errors = <<>>
    /\ 1234567 \in DOMAIN routing_events
    /\ routing_events[1234567] # BaseRow(1234567)

====
